---- MODULE Spec2Model ----
(***************************************************************************)
(* Model of the migration-learning repository:                             *)
(*   - src/models/user.py: the declarative User model.  Its operational    *)
(*     content is what the ORM flush and the database do with the column   *)
(*     declarations: python-side defaults (id, is_active, test,            *)
(*     is_verified), server defaults (created_at, updated_at = now()),     *)
(*     onupdate=now() and the primary-key / unique constraints.            *)
(*   - src/verify_migration.py: verify_database_migration, one step per    *)
(*     database interaction, each of which may raise.                      *)
(* Execution is single-threaded (one process): the procedure runs only     *)
(* while no application transaction is open and application operations     *)
(* run only between runs of the procedure.  now() is the start time of the *)
(* current transaction (PostgreSQL), read from a non-decreasing clock.     *)
(***************************************************************************)
EXTENDS Naturals, Sequences, FiniteSets

\* ------------------------------------------------------------------ bounds
\* Highest reading of the database clock.
MaxClock == 2
\* Number of distinct values uuid4() can return.
MaxId == 2
\* Highest number of rows of alembic_version.
MaxVersionRows == 2

\* ---------------------------------------------------------------- domains
Ids == 1..MaxId
SampleEmail == "test@example.com"
SampleUsername == "testuser"
Emails == {SampleEmail, "other@example.com"}
Usernames == {SampleUsername, "other"}
Versions == {"a1b2c3", ""}

\* An optional value: <<>> is None / not supplied, <<v>> is the value v.
None == <<>>
Some(v) == <<v>>

\* DATABASE_URL as a sequence of characters: the placeholder the repository
\* ships, a URL of an unknown dialect and a well-formed PostgreSQL URL.
PlaceholderUrl ==
    <<"y","o","u","r","-","d","a","t","a","b","a","s","e","-","u","r","l">>
UnknownDialectUrl == <<"p","g",":","/","/","h">>
PostgresUrl == <<"p","o","s","t","g","r","e","s","q","l",":","/","/","h">>
DatabaseUrls == {PlaceholderUrl, UnknownDialectUrl, PostgresUrl}

VARIABLES
    users,          \* rows of the "users" table
    tableExists,    \* whether the migration created the "users" table
    clock,          \* the database clock
    txnTs,          \* now() of the application's open transaction, 0: none
    app_pending,    \* the application session's pending User object, if any
    pc,             \* position of verify_database_migration
    out,            \* lines printed by the current run
    issued,         \* statements the current run sent over its connection
    conn,           \* the run's Connection: "none", "open", "closed"
    session,        \* the run's Session: "none", "open", "closed"
    connOpens, connCloses, sessOpens, sessCloses,
    result,         \* local variable result: the last statement that returned
    version,        \* local variable version (result of fetchone)
    test_user,      \* local variable test_user
    queried_user,   \* local variable queried_user
    users0          \* the table as it was when the current run started

vars == <<users, tableExists, clock, txnTs, app_pending, pc, out, issued,
          conn, session, connOpens, connCloses, sessOpens, sessCloses,
          result, version, test_user, queried_user, users0>>

dbVars == <<users, tableExists, clock, txnTs, app_pending>>
runVars == <<pc, out, issued, conn, session, connOpens, connCloses,
             sessOpens, sessCloses, result, version, test_user, queried_user,
             users0>>
otherLocals == <<version, test_user, queried_user, users0>>
localVars == <<result, version, test_user, queried_user, users0>>

\* ------------------------------------------------------- models/user.py
\* Python-side column defaults, applied by the flush when the attribute
\* was not supplied (an attribute left None is omitted from the INSERT).
Default_is_active == TRUE
Default_test == TRUE
\* Faulty variant: new users are stored as verified.
Default_is_verified_Mutant == TRUE

Default_is_verified == FALSE

OrDefault(opt, d) == IF opt = None THEN d ELSE opt[1]

\* User(...): the in-memory object; flags the caller did not pass stay unset.
User(email, username, password_hash, first_name, last_name, is_active, test, is_verified) ==
    [email |-> email, username |-> username, password_hash |-> password_hash,
     first_name |-> first_name, last_name |-> last_name,
     is_active |-> is_active, test |-> test, is_verified |-> is_verified]

\* The row an INSERT of obj stores: id from uuid4() (newid), the boolean
\* defaults where nothing was supplied, both timestamps from now().
InsertedRow(obj, newid, now) ==
    [id |-> newid, email |-> obj.email, username |-> obj.username,
     password_hash |-> obj.password_hash,
     first_name |-> obj.first_name, last_name |-> obj.last_name,
     is_active |-> OrDefault(obj.is_active, Default_is_active),
     test |-> OrDefault(obj.test, Default_test),
     is_verified |-> OrDefault(obj.is_verified, Default_is_verified),
     created_at |-> now, updated_at |-> now]

\* uuid.uuid4(): ids are only ever compared for equality, so one value
\* stands for all the values no row has yet; a value some row has already
\* is a collision.
Min(S) == CHOOSE x \in S : \A y \in S : x <= y
Uuid4Values(table) ==
    LET used == {r.id : r \in table}
        unused == Ids \ used
    IN  used \cup (IF unused = {} THEN {} ELSE {Min(unused)})

\* Faulty variant: email is not declared unique.
UniqueViolation_Mutant(table, row) ==
    \E r \in table : r.id = row.id \/ r.username = row.username

\* The constraints the declarations put on the table: primary key on id,
\* unique on email, unique on username.
UniqueViolation(table, row) ==
    \E r \in table :
        r.id = row.id \/ r.email = row.email \/ r.username = row.username

\* Faulty variant: onupdate is declared on created_at as well.
UpdatedRow_Mutant(row, active, now) ==
    [row EXCEPT !.is_active = active, !.updated_at = now, !.created_at = now]

\* An UPDATE of row that changes is_active: onupdate=func.now() puts
\* updated_at into the SET clause; no other column is assigned.
UpdatedRow(row, active, now) ==
    [row EXCEPT !.is_active = active, !.updated_at = now]

\* User.__repr__: id, username, email and is_active.
Repr(row) == <<row.id, row.username, row.email, row.is_active>>

\* ------------------------------------------- sqlalchemy.create_engine(url)
\* make_url accepts a string that starts with a name of word characters
\* or "+" followed by "://"; create_engine then loads the named dialect.
WordChars ==
    {"a","b","d","e","g","h","l","o","p","q","r","s","t","u","y","+"}
SchemeAt(u, k) ==
    /\ k >= 1
    /\ k + 3 <= Len(u)
    /\ \A i \in 1..k : u[i] \in WordChars
    /\ u[k+1] = ":" /\ u[k+2] = "/" /\ u[k+3] = "/"
UrlParses(u) == \E k \in 1..Len(u) : SchemeAt(u, k)
DialectOf(u) == SubSeq(u, 1, CHOOSE k \in 1..Len(u) : SchemeAt(u, k))
KnownDialects == { <<"p","o","s","t","g","r","e","s","q","l">> }
CreateEngineRaises(u) == ~UrlParses(u) \/ DialectOf(u) \notin KnownDialects

\* ------------------------------------------------------------ printed text
Line(m, a) == [msg |-> m, arg |-> a]
Say(m) == Line(m, <<>>)
Printed(m) == \E i \in 1..Len(out) : out[i].msg = m

M_Verifying == "Verifying database migration..."
M_ConnOk == "Database connection successful!"
M_TableExists == "Users table exists!"
M_TableMissing == "Users table not found!"
M_Structure == "Users table structure:"
M_Indexes == "Indexes on users table:"
M_Version == "Current migration version: "
M_NoVersion == "No migration version found!"
M_Phase1Failed == "Database verification failed: "
M_Testing == "Testing User model..."
M_Created == "Created test user: "
M_Queried == "Successfully queried user: "
M_Phase2Failed == "User model test failed: "
M_Completed == "Database migration verification completed successfully!"

\* The statements of the first phase, by the table they read.
Q_Tables == "information_schema.tables"
Q_Columns == "information_schema.columns"
Q_Indexes == "pg_indexes"
Q_Version == "alembic_version"

\* The exceptions the database client raises: the server cannot be reached,
\* a statement names a relation that does not exist, a constraint is violated.
E_Operational == "OperationalError"
E_Programming == "ProgrammingError"
E_Integrity == "IntegrityError"
QueryErrors == {E_Operational, E_Programming}

\* ------------------------------------------------------------------- Init
Init ==
    /\ users = {}
    /\ tableExists \in BOOLEAN
    /\ clock = 1
    /\ txnTs = 0
    /\ app_pending = None
    /\ pc = "idle"
    /\ out = <<>>
    /\ issued = <<>>
    /\ conn = "none"
    /\ session = "none"
    /\ connOpens = 0 /\ connCloses = 0 /\ sessOpens = 0 /\ sessCloses = 0
    /\ result = "none"
    /\ version = None
    /\ test_user = None
    /\ queried_user = None
    /\ users0 = {}

\* ----------------------------------------------- the database and its users
\* An external migration creates the users table.
Migrate ==
    /\ pc = "idle" /\ ~tableExists
    /\ tableExists' = TRUE
    /\ UNCHANGED <<users, clock, txnTs, app_pending>>
    /\ UNCHANGED runVars

Tick ==
    /\ clock < MaxClock
    /\ clock' = clock + 1
    /\ UNCHANGED <<users, tableExists, txnTs, app_pending>>
    /\ UNCHANGED runVars

\* The application's session begins a transaction: now() is fixed to the
\* clock's reading at that moment.
AppBegin ==
    /\ pc = "idle" /\ tableExists /\ txnTs = 0
    /\ txnTs' = clock
    /\ UNCHANGED <<users, tableExists, clock, app_pending>>
    /\ UNCHANGED runVars

\* The flag combinations an application passes to User(...), as
\* <<is_active, test, is_verified>>.
FlagChoices ==
    { <<None, None, None>>,
      <<Some(FALSE), None, None>>,
      <<None, Some(FALSE), None>>,
      <<None, None, Some(TRUE)>>,
      <<Some(TRUE), Some(TRUE), Some(FALSE)>>,
      <<Some(FALSE), Some(FALSE), Some(TRUE)>> }

\* session.add(User(...)) by the application.
AppAdd ==
    /\ pc = "idle" /\ txnTs # 0 /\ app_pending = None
    /\ \E e \in Emails, u \in Usernames, f \in FlagChoices :
         app_pending' = Some(User(e, u, "hash", None, None, f[1], f[2], f[3]))
    /\ UNCHANGED <<users, tableExists, clock, txnTs>>
    /\ UNCHANGED runVars

\* session.flush(): INSERT of the pending object at now() of the open
\* transaction; a constraint violation raises and the statement leaves the
\* table as it was.
AppFlush ==
    /\ pc = "idle" /\ txnTs # 0 /\ app_pending # None
    /\ \E newid \in Uuid4Values(users) :
         LET row == InsertedRow(app_pending[1], newid, txnTs) IN
         users' = IF UniqueViolation(users, row) THEN users
                  ELSE users \cup {row}
    /\ app_pending' = None
    /\ UNCHANGED <<tableExists, clock, txnTs>>
    /\ UNCHANGED runVars

\* The application changes is_active of a stored user and flushes.
AppUpdate ==
    /\ pc = "idle" /\ txnTs # 0 /\ app_pending = None
    /\ \E r \in users :
         users' = (users \ {r}) \cup {UpdatedRow(r, ~r.is_active, txnTs)}
    /\ UNCHANGED <<tableExists, clock, txnTs, app_pending>>
    /\ UNCHANGED runVars

AppCommit ==
    /\ pc = "idle" /\ txnTs # 0 /\ app_pending = None
    /\ txnTs' = 0
    /\ UNCHANGED <<users, tableExists, clock, app_pending>>
    /\ UNCHANGED runVars

\* Faulty variant: the connection is not closed on leaving the block.
ConnExit_Mutant(c) == c

\* ------------------------------------------- verify_migration.py: helpers
\* Leaving "with engine.connect() as conn": the connection is closed.
ConnExit(c) == IF c = "open" THEN "closed" ELSE c

\* Faulty variant: the session is not closed on leaving the block.
SessionExit_Mutant(s) == s

\* Leaving "with session_factory() as session": the session is closed.
SessionExit(s) == IF s = "open" THEN "closed" ELSE s

Closes(before, after) == IF before = "open" /\ after = "closed" THEN 1 ELSE 0

\* information_schema.columns for the table the model declares:
\* column_name, data_type, is_nullable, column_default.
UsersColumns ==
    << <<"id", "uuid", "NO", None>>,
       <<"email", "character varying", "NO", None>>,
       <<"username", "character varying", "NO", None>>,
       <<"password_hash", "character varying", "NO", None>>,
       <<"first_name", "character varying", "YES", None>>,
       <<"last_name", "character varying", "YES", None>>,
       <<"is_active", "boolean", "NO", None>>,
       <<"test", "boolean", "NO", Some("true")>>,
       <<"is_verified", "boolean", "NO", None>>,
       <<"created_at", "timestamp with time zone", "NO", Some("now()")>>,
       <<"updated_at", "timestamp with time zone", "NO", Some("now()")>> >>

\* One printed line of the column listing.
ColumnLine(row) ==
    Line("column",
         <<row[1], row[2],
           IF row[3] = "YES" THEN "NULL" ELSE "NOT NULL",
           IF row[4] # None THEN <<" DEFAULT ", row[4][1]>> ELSE <<>> >>)

\* pg_indexes for the table, ordered by indexname.
UsersIndexes ==
    << <<"idx_user_created_at", "(created_at)">>,
       <<"idx_user_email_active", "(email, is_active)">>,
       <<"idx_user_username_active", "(username, is_active)">>,
       <<"ix_users_email", "UNIQUE (email)">>,
       <<"ix_users_username", "UNIQUE (username)">>,
       <<"users_pkey", "UNIQUE (id)">> >>

IndexLine(row) == Line("index", <<row[1], row[2]>>)

ColumnLines(rows) == [i \in 1..Len(rows) |-> ColumnLine(rows[i])]
IndexLines(rows) == [i \in 1..Len(rows) |-> IndexLine(rows[i])]

\* The states alembic_version can be in: up to MaxVersionRows one-column rows.
VersionTables ==
    UNION { [1..n -> {<<v>> : v \in Versions}] : n \in 0..MaxVersionRows }

\* result.fetchone(): the first row, or None.
FetchOne(rows) == IF Len(rows) = 0 THEN None ELSE Some(rows[1])

\* "if version:": None is false, a row is true when it has columns.
Truthy(opt) == opt # None /\ Len(opt[1]) > 0

\* Faulty variant: the query has no filter.
FirstByEmail_Mutant(table, e) ==
    IF table # {} THEN {Some(r) : r \in table} ELSE {None}

\* session.query(User).filter_by(email=e).first(): some matching row, or None.
FirstByEmail(table, e) ==
    IF \E r \in table : r.email = e
    THEN {Some(r) : r \in {x \in table : x.email = e}}
    ELSE {None}

\* "except Exception as e" of the first phase, reached from inside the with
\* block or from engine.connect() itself.
Phase1Except(e) ==
    /\ conn' = ConnExit(conn)
    /\ connCloses' = connCloses + Closes(conn, conn')
    /\ out' = Append(out, Line(M_Phase1Failed, <<e>>))
    /\ pc' = "done"
    /\ UNCHANGED <<session, connOpens, sessOpens, sessCloses>>
    /\ UNCHANGED localVars

\* Faulty variant: the handler has no return.
Phase2Except_Mutant(e) ==
    /\ session' = SessionExit(session)
    /\ sessCloses' = sessCloses + Closes(session, session')
    /\ out' = Append(out, Line(M_Phase2Failed, <<e>>))
    /\ pc' = "complete"
    /\ UNCHANGED <<conn, connOpens, connCloses, sessOpens, issued>>
    /\ UNCHANGED localVars

\* "except Exception as e" of the second phase.
Phase2Except(e) ==
    /\ session' = SessionExit(session)
    /\ sessCloses' = sessCloses + Closes(session, session')
    /\ out' = Append(out, Line(M_Phase2Failed, <<e>>))
    /\ pc' = "done"
    /\ UNCHANGED <<conn, connOpens, connCloses, sessOpens, issued>>
    /\ UNCHANGED localVars

\* --------------------------------- verify_database_migration, step by step
\* print, then create_engine(DATABASE_URL), which is outside both try blocks.
Start ==
    /\ pc = "idle" /\ txnTs = 0
    /\ out' = <<Say(M_Verifying)>>
    /\ users0' = users
    /\ \E url \in DatabaseUrls :
         pc' = IF CreateEngineRaises(url) THEN "raised" ELSE "connect"
    /\ UNCHANGED <<issued, conn, session, connOpens, connCloses, sessOpens,
                   sessCloses, result, version, test_user, queried_user>>
    /\ UNCHANGED dbVars

\* engine.connect()
Connect ==
    /\ pc = "connect"
    /\ \/ Phase1Except(E_Operational) /\ UNCHANGED issued
       \/ /\ conn' = "open"
          /\ connOpens' = connOpens + 1
          /\ out' = Append(out, Say(M_ConnOk))
          /\ pc' = "q_table"
          /\ UNCHANGED <<issued, session, connCloses, sessOpens, sessCloses>>
          /\ UNCHANGED localVars
    /\ UNCHANGED dbVars

\* Faulty variant: the missing-table branch has no return.
CheckUsersTable_Mutant ==
    /\ pc = "q_table"
    /\ issued' = Append(issued, Q_Tables)
    /\ \/ \E e \in QueryErrors : Phase1Except(e)
       \/ /\ tableExists
          /\ result' = Q_Tables
          /\ out' = Append(out, Say(M_TableExists))
          /\ pc' = "q_columns"
          /\ UNCHANGED <<conn, session, connOpens, connCloses, sessOpens,
                         sessCloses>>
          /\ UNCHANGED otherLocals
       \/ /\ ~tableExists
          /\ result' = Q_Tables
          /\ out' = Append(out, Say(M_TableMissing))
          /\ pc' = "q_columns"
          /\ UNCHANGED <<conn, session, connOpens, connCloses, sessOpens,
                         sessCloses>>
          /\ UNCHANGED otherLocals
    /\ UNCHANGED dbVars

\* The table-existence query, and the early return when there is no row.
CheckUsersTable ==
    /\ pc = "q_table"
    /\ issued' = Append(issued, Q_Tables)
    /\ \/ \E e \in QueryErrors : Phase1Except(e)
       \/ /\ tableExists
          /\ result' = Q_Tables
          /\ out' = Append(out, Say(M_TableExists))
          /\ pc' = "q_columns"
          /\ UNCHANGED <<conn, session, connOpens, connCloses, sessOpens,
                         sessCloses>>
          /\ UNCHANGED otherLocals
       \/ /\ ~tableExists
          /\ result' = Q_Tables
          /\ out' = Append(out, Say(M_TableMissing))
          /\ conn' = ConnExit(conn)
          /\ connCloses' = connCloses + Closes(conn, conn')
          /\ pc' = "done"
          /\ UNCHANGED <<session, connOpens, sessOpens, sessCloses>>
          /\ UNCHANGED otherLocals
    /\ UNCHANGED dbVars

\* The column listing.
ListColumns ==
    /\ pc = "q_columns"
    /\ issued' = Append(issued, Q_Columns)
    /\ \/ \E e \in QueryErrors : Phase1Except(e)
       \/ /\ result' = Q_Columns
          /\ out' = Append(out, Say(M_Structure))
                       \o ColumnLines(UsersColumns)
          /\ pc' = "q_indexes"
          /\ UNCHANGED <<conn, session, connOpens, connCloses, sessOpens,
                         sessCloses>>
          /\ UNCHANGED otherLocals
    /\ UNCHANGED dbVars

\* The index listing.
ListIndexes ==
    /\ pc = "q_indexes"
    /\ issued' = Append(issued, Q_Indexes)
    /\ \/ \E e \in QueryErrors : Phase1Except(e)
       \/ /\ result' = Q_Indexes
          /\ out' = Append(out, Say(M_Indexes))
                       \o IndexLines(UsersIndexes)
          /\ pc' = "q_version"
          /\ UNCHANGED <<conn, session, connOpens, connCloses, sessOpens,
                         sessCloses>>
          /\ UNCHANGED otherLocals
    /\ UNCHANGED dbVars

\* Faulty variant: tests version[0] instead of version.
VersionLine_Mutant(v) ==
    IF Truthy(v) /\ v[1][1] # "" THEN Line(M_Version, <<v[1][1]>>)
    ELSE Say(M_NoVersion)

\* What the version check prints for the fetched row.
VersionLine(v) ==
    IF Truthy(v) THEN Line(M_Version, <<v[1][1]>>) ELSE Say(M_NoVersion)

\* The alembic_version query; the with block ends after it.
CheckVersion ==
    /\ pc = "q_version"
    /\ issued' = Append(issued, Q_Version)
    /\ \/ \E e \in QueryErrors : Phase1Except(e)
       \/ \E rows \in VersionTables :
            /\ result' = Q_Version
            /\ version' = FetchOne(rows)
            /\ out' = Append(out, VersionLine(version'))
            /\ conn' = ConnExit(conn)
            /\ connCloses' = connCloses + Closes(conn, conn')
            /\ pc' = "open_session"
            /\ UNCHANGED <<session, connOpens, sessOpens, sessCloses,
                           test_user, queried_user, users0>>
    /\ UNCHANGED dbVars

\* print, sessionmaker, session_factory(), User(...), session.add
OpenSession ==
    /\ pc = "open_session"
    /\ out' = Append(out, Say(M_Testing))
    /\ session' = "open"
    /\ sessOpens' = sessOpens + 1
    /\ test_user' = Some(User(SampleEmail, SampleUsername,
                              "hashed_password_here", Some("Test"),
                              Some("User"), None, None, None))
    /\ pc' = "commit"
    /\ UNCHANGED <<issued, conn, connOpens, connCloses, sessCloses, result,
                   version, queried_user, users0>>
    /\ UNCHANGED dbVars

\* session.commit(): the flush INSERTs test_user in a transaction that
\* starts now; a database error or a violated constraint raises.
Commit ==
    /\ pc = "commit"
    /\ \/ Phase2Except(E_Operational) /\ UNCHANGED users
       \/ \E newid \in Uuid4Values(users) :
            LET row == InsertedRow(test_user[1], newid, clock) IN
            /\ UniqueViolation(users, row)
            /\ Phase2Except(E_Integrity)
            /\ UNCHANGED users
       \/ \E newid \in Uuid4Values(users) :
            LET row == InsertedRow(test_user[1], newid, clock) IN
            /\ ~UniqueViolation(users, row)
            /\ users' = users \cup {row}
            /\ test_user' = Some(row)
            /\ pc' = "print_created"
            /\ UNCHANGED <<out, issued, conn, session, connOpens, connCloses,
                           sessOpens, sessCloses, result, version,
                           queried_user, users0>>
    /\ UNCHANGED <<tableExists, clock, txnTs, app_pending>>

\* print(f"Created test user: {test_user}"): the commit expired the
\* attributes, so __repr__ reloads the row by primary key.
PrintCreated ==
    /\ pc = "print_created"
    /\ \/ Phase2Except(E_Operational)
       \/ /\ out' = Append(out,
                 Line(M_Created,
                      Repr(CHOOSE r \in users : r.id = test_user[1].id)))
          /\ pc' = "query"
          /\ UNCHANGED <<issued, conn, session, connOpens, connCloses,
                         sessOpens, sessCloses>>
          /\ UNCHANGED localVars
    /\ UNCHANGED dbVars

\* The query by email, the print of its result, and the end of the with
\* block.
QueryBack ==
    /\ pc = "query"
    /\ \/ Phase2Except(E_Operational)
       \/ \E q \in FirstByEmail(users, SampleEmail) :
            /\ queried_user' = q
            /\ out' = IF q # None THEN Append(out, Line(M_Queried, Repr(q[1])))
                      ELSE out
            /\ session' = SessionExit(session)
            /\ sessCloses' = sessCloses + Closes(session, session')
            /\ pc' = "complete"
            /\ UNCHANGED <<issued, conn, connOpens, connCloses, sessOpens,
                           result, version, test_user, users0>>
    /\ UNCHANGED dbVars

\* The last print.
Complete ==
    /\ pc = "complete"
    /\ out' = Append(out, Say(M_Completed))
    /\ pc' = "done"
    /\ UNCHANGED <<issued, conn, session, connOpens, connCloses, sessOpens,
                   sessCloses>>
    /\ UNCHANGED localVars
    /\ UNCHANGED dbVars

\* The process ends; the next run is a new process.
Reset ==
    /\ pc \in {"done", "raised"}
    /\ pc' = "idle"
    /\ out' = <<>>
    /\ issued' = <<>>
    /\ conn' = "none"
    /\ session' = "none"
    /\ connOpens' = 0 /\ connCloses' = 0 /\ sessOpens' = 0 /\ sessCloses' = 0
    /\ result' = "none"
    /\ version' = None
    /\ test_user' = None
    /\ queried_user' = None
    /\ users0' = {}
    /\ UNCHANGED dbVars

Next ==
    \/ Migrate \/ Tick
    \/ AppBegin \/ AppAdd \/ AppFlush \/ AppUpdate \/ AppCommit
    \/ Start \/ Connect \/ CheckUsersTable \/ ListColumns \/ ListIndexes
    \/ CheckVersion \/ OpenSession \/ Commit \/ PrintCreated \/ QueryBack
    \/ Complete \/ Reset

Spec == Init /\ [][Next]_vars

\* ================================================================ claims
HasLine(l) == \E i \in 1..Len(out) : out[i] = l
ArgsOf(m) == {out[i].arg : i \in {j \in 1..Len(out) : out[j].msg = m}}
AllQueries == <<Q_Tables, Q_Columns, Q_Indexes, Q_Version>>
IsPrefix(a, b) == Len(a) <= Len(b) /\ SubSeq(b, 1, Len(a)) = a

\* C1: verify_database_migration always returns normally: no exception ever
\* propagates to the caller, on any path from its first statement on.
C1_NoExceptionPropagates == pc # "raised"

\* The check each printed line belongs to.
StageOf(m) ==
    CASE m = M_Verifying -> 0
      [] m = M_ConnOk -> 1
      [] m \in {M_TableExists, M_TableMissing} -> 2
      [] m \in {M_Structure, "column"} -> 3
      [] m \in {M_Indexes, "index"} -> 4
      [] m \in {M_Version, M_NoVersion} -> 5
      [] m \in {M_Testing, M_Created, M_Queried} -> 6
      [] OTHER -> 7

\* C2: the checks run in the order connection, table existence, columns,
\* indexes, version, sample write/read; a check starts only after every
\* earlier one completed without failure; when the users table is absent the
\* run prints "Users table not found!" and ends with no further query, no
\* session, no row written and the earlier output kept.
C2_FixedOrderAndAbort ==
    /\ \A i \in 1..Len(out) :
         i < Len(out) => StageOf(out[i].msg) <= StageOf(out[i+1].msg)
    /\ IsPrefix(issued, AllQueries)
    /\ Len(issued) >= 1 => Printed(M_ConnOk)
    /\ Len(issued) >= 2 => Printed(M_TableExists)
    /\ Len(issued) >= 3 => Printed(M_Structure)
    /\ Len(issued) >= 4 => Printed(M_Indexes)
    /\ sessOpens > 0 =>
         /\ issued = AllQueries
         /\ Printed(M_Version) \/ Printed(M_NoVersion)
         /\ ~Printed(M_Phase1Failed)
    /\ pc # "idle" /\ users # users0 => Printed(M_Testing)
    /\ Printed(M_TableMissing) =>
         /\ pc = "done"
         /\ out = <<Say(M_Verifying), Say(M_ConnOk), Say(M_TableMissing)>>
         /\ issued = <<Q_Tables>>
         /\ sessOpens = 0 /\ session = "none"
         /\ test_user = None
         /\ users = users0

C2_Witness ==
    /\ pc = "done"
    /\ Printed(M_TableMissing)
    /\ Printed(M_ConnOk)

\* C3: once the version query has returned, the run has printed the recorded
\* version identifier when a row was fetched, or the note that none was found
\* when no row was fetched; either way the first phase did not fail and the
\* run goes on to the sample User write/read.
C3_VersionReported ==
    result = Q_Version =>
        /\ version # None =>
             /\ HasLine(Line(M_Version, <<version[1][1]>>))
             /\ ~Printed(M_NoVersion)
        /\ version = None => Printed(M_NoVersion) /\ ~Printed(M_Version)
        /\ ~Printed(M_Phase1Failed)
        /\ pc = "open_session" \/ Printed(M_Testing)

C3_Witness ==
    /\ result = Q_Version
    /\ version = None
    /\ Printed(M_NoVersion)
    /\ Printed(M_Testing)

\* C4: when the procedure has ended, no connection and no session it opened
\* is still open, and the connection is closed before the session is opened.
C4_Released ==
    /\ pc \in {"done", "raised", "idle"} => conn # "open" /\ session # "open"
    /\ session # "none" => conn = "closed"

C4_Witness ==
    /\ pc = "done"
    /\ Printed(M_Phase2Failed)
    /\ conn = "closed"
    /\ session = "closed"

\* C5 as stated: every run performs exactly one connection lifecycle and
\* exactly one session lifecycle, whatever the outcome of the checks.
C5_ExactlyOneEach ==
    pc = "done" =>
        /\ connOpens = 1 /\ connCloses = 1
        /\ sessOpens = 1 /\ sessCloses = 1

\* C5 as amended: a run performs at most one connection lifecycle and at
\* most one session lifecycle, each open closed again by the end of the run;
\* the connection lifecycle happens exactly when engine.connect() succeeded
\* and the session lifecycle exactly when the first phase completed (the
\* version query returned), after the connection was closed.
C5_AtMostOneEach ==
    /\ connOpens <= 1 /\ sessOpens <= 1
    /\ connCloses <= connOpens /\ sessCloses <= sessOpens
    /\ pc \in {"done", "raised"} =>
         connCloses = connOpens /\ sessCloses = sessOpens
    /\ connOpens = 1 <=> Printed(M_ConnOk)
    /\ sessOpens = 1 <=> Printed(M_Testing)
    /\ sessOpens = 1 => result = Q_Version /\ connOpens = 1 /\ connCloses = 1
    /\ result = Q_Version /\ pc = "done" => sessOpens = 1

C5_Witness ==
    /\ pc = "done"
    /\ connOpens = 1 /\ connCloses = 1
    /\ sessOpens = 0 /\ sessCloses = 0

EmailUnique(table) ==
    \A r1, r2 \in table : r1.email = r2.email => r1 = r2

\* C6: email stays unique over any sequence of inserts: an insert of an email
\* some row already has fails and leaves the table as it was; when the sample
\* write of the procedure does so, the run prints "User model test failed"
\* with the integrity error, ends normally, and the table still holds
\* exactly one row with that email.
C6_DuplicateEmailRejected ==
    [][ /\ EmailUnique(users')
        /\ ( /\ pc = "idle" /\ app_pending # None /\ app_pending' = None
             /\ \E r \in users : r.email = app_pending[1].email )
           => users' = users
        /\ ( /\ pc = "commit" /\ pc' # "commit"
             /\ \E r \in users : r.email = SampleEmail )
           => /\ users' = users
              /\ pc' = "done"
              /\ out' = Append(out, Line(M_Phase2Failed, <<E_Integrity>>))
                 \/ out' = Append(out, Line(M_Phase2Failed, <<E_Operational>>))
              /\ session' = "closed"
              /\ Cardinality({r \in users' : r.email = SampleEmail}) = 1
      ]_vars

C6_Witness ==
    /\ pc = "done"
    /\ HasLine(Line(M_Phase2Failed, <<E_Integrity>>))
    /\ \E r \in users0 : r.email = SampleEmail
    /\ users = users0

\* C7: the query by email right after the committed insert returns the row
\* that was inserted: same id, username and email, and the line printed as
\* "Successfully queried user" shows the same user as "Created test user",
\* whatever the table held before.
C7_ReadBackSame ==
    /\ pc = "complete" => queried_user # None /\ Printed(M_Queried)
    /\ Printed(M_Queried) =>
         /\ queried_user # None
         /\ queried_user[1].id = test_user[1].id
         /\ queried_user[1].username = SampleUsername
         /\ queried_user[1].email = SampleEmail
         /\ queried_user[1] \in users
         /\ ArgsOf(M_Queried) = ArgsOf(M_Created)

C7_Witness ==
    /\ Printed(M_Queried)
    /\ users0 # {}

\* Row r and its later version r2 after a step that modified it.
Modified(r, r2) == r.id = r2.id /\ r # r2

\* C8 as stated: an inserted row has created_at = updated_at, and each later
\* update strictly increases updated_at and leaves created_at and id as
\* they were.
C8_UpdateStrictlyIncreases ==
    [][ /\ \A r2 \in users' :
             (\A r \in users : r.id # r2.id) => r2.created_at = r2.updated_at
        /\ \A r \in users : \E r2 \in users' : r2.id = r.id
        /\ \A r \in users, r2 \in users' :
             Modified(r, r2) =>
                 r2.created_at = r.created_at /\ r2.updated_at > r.updated_at
      ]_vars

\* C8 as amended: an inserted row has created_at = updated_at; each later
\* update leaves created_at and id as they were and sets updated_at to now()
\* of the updating transaction, which is never earlier than the value before
\* and is later exactly when that transaction started later.
C8_UpdateNeverDecreases ==
    [][ /\ \A r2 \in users' :
             (\A r \in users : r.id # r2.id) => r2.created_at = r2.updated_at
        /\ \A r \in users : \E r2 \in users' : r2.id = r.id
        /\ \A r \in users, r2 \in users' :
             Modified(r, r2) =>
                 /\ r2.created_at = r.created_at
                 /\ r2.updated_at >= r.updated_at
                 /\ r2.updated_at = txnTs
                 /\ r2.updated_at > r.updated_at <=> txnTs > r.updated_at
      ]_vars

C8_Witness ==
    \E r \in users : r.updated_at > r.created_at /\ txnTs = r.updated_at

\* The value a flag supplied as opt is stored with, when d is stored for a
\* flag that was not supplied.
Stored(opt, d) == IF opt = None THEN d ELSE opt[1]

\* C9: an inserted User stores is_active = TRUE, is_verified = FALSE and
\* test = TRUE for the flags that were not supplied and the supplied value for
\* the others; the sample user of the procedure supplies none and is stored
\* active, unverified and test = TRUE.
C9_FlagDefaults ==
    [][ /\ (pc = "idle" /\ app_pending # None) =>
             \A r \in users' \ users :
                 /\ r.is_active = Stored(app_pending[1].is_active, TRUE)
                 /\ r.is_verified = Stored(app_pending[1].is_verified, FALSE)
                 /\ r.test = Stored(app_pending[1].test, TRUE)
        /\ pc = "commit" =>
             \A r \in users' \ users :
                 /\ test_user[1].is_active = None
                 /\ test_user[1].is_verified = None
                 /\ test_user[1].test = None
                 /\ r.is_active /\ ~r.is_verified /\ r.test
                 /\ test_user' = Some(r)
      ]_vars

C9_Witness ==
    /\ pc = "print_created"
    /\ \E r \in users \ users0 :
         /\ r.email = SampleEmail
         /\ r.is_active /\ ~r.is_verified /\ r.test
    /\ \E r \in users0 : ~r.is_active /\ r.is_verified /\ ~r.test

\* C10: the final message is printed only in a run in which the connection
\* succeeded, the users table was found, every catalog and version query
\* returned, the sample User was committed and read back by email; never in a
\* run that printed "Users table not found!" or either failure message.
C10_CompletedOnlyOnSuccess ==
    Printed(M_Completed) =>
        /\ pc = "done"
        /\ Printed(M_ConnOk)
        /\ Printed(M_TableExists)
        /\ issued = AllQueries /\ result = Q_Version
        /\ Printed(M_Version) \/ Printed(M_NoVersion)
        /\ test_user # None
        /\ test_user[1] \in users \ users0
        /\ Printed(M_Created)
        /\ queried_user # None /\ queried_user[1].email = SampleEmail
        /\ Printed(M_Queried)
        /\ ~Printed(M_TableMissing)
        /\ ~Printed(M_Phase1Failed)
        /\ ~Printed(M_Phase2Failed)

C10_Witness ==
    /\ Printed(M_Completed)
    /\ pc = "done"

====
